---- MODULE Spec2Model ----
(***************************************************************************)
(* A model of NMDownloader (kpagacz/NMDownloader): the Nexus Mods API      *)
(* query client (utils/nexus_queries.py), the batched metadata import      *)
(* (utils/nexus_interface.py) and the chunked file download                *)
(* (utils/mod_download.py).                                                *)
(*                                                                         *)
(* Conventions.  A Python value that may be None is a sequence of length   *)
(* 0 (None) or 1 (the value).  A URL or path is a sequence of string       *)
(* pieces, and string concatenation is \o.  A headers dict is the set of   *)
(* its keys.                                                               *)
(***************************************************************************)
EXTENDS Integers, Sequences, FiniteSets, TLC

VARIABLES
    qobj,           \* the NexusQuery / ModFileQuery object: its attributes
    call,           \* the most recent call of NexusQuery.query, start to end
    defaults,       \* the attributes the query object was constructed with
    bop,            \* the NexusInterface method that is running or has ended
    bpc,            \* import_mod_info, import_file_list: where the call stands
    mod_list,       \* importer.mod_list, the requested ids
    response_list,  \* the responses query has handed back so far, in order
    decoded_n,      \* import_mod_info: how many responses have been decoded
    mod_info_dict,  \* import_mod_info: the dict under construction
    file_list_dict, \* import_file_list: the dict under construction
    profile,        \* the content of profile/mod_infos.json, None if no file
    file_lists,     \* the content of profile/file_lists.json, None if no file
    wire,           \* the batch's traffic: each dispatch and each outcome
    bresult,        \* import_mod_info, import_file_list: what the caller got
    user_profile,   \* the content of profile/user_profile.json, None if no file
    writes,         \* the files NexusInterface has written, in order
    auth_result,    \* authenticate: what the caller got
    dpc,            \* download_with_progress_bar: where the call stands
    task,           \* download_with_progress_bar: its url and write_folder
    file_name,      \* download_with_progress_bar: the resolved file name
    name_error,     \* whether get_mod_name_from_url raised ValueError
    dirs,           \* the directories that exist, each a sequence of names
    files,          \* the files that exist: path |-> content, a byte sequence
    out_path,       \* the path of output_file
    received,       \* the chunks response.iter_content has yielded, in order
    progress,       \* the updates of the tqdm bar: amount and running count
    net,            \* the requests.get calls of the download, in order
    dresult,        \* download_with_progress_bar: what the caller got
    auth,           \* the Authenticator object, None before it is constructed
    acall,          \* the most recent operation on Authenticator
    importer,       \* the ModListImporter object, None before it is constructed
    icall           \* the most recent operation on ModListImporter

qvars == <<qobj, call, defaults>>

bvars == <<bop, bpc, mod_list, response_list, decoded_n, mod_info_dict,
           file_list_dict, profile, file_lists, wire, bresult, user_profile,
           writes, auth_result>>

dvars == <<dpc, task, file_name, name_error, dirs, files, out_path, received,
           progress, net, dresult>>

ovars == <<auth, acall, importer, icall>>

vars == <<qvars, bvars, dvars, ovars>>

(***************************************************************************)
(* Python's None and values that may be None.                              *)
(***************************************************************************)
None == <<>>

Some(x) == <<x>>

IsNone(o) == o = <<>>

Val(o) == o[1]

\* `x if arg is None else arg`, the defaulting idiom of every method
OrDefault(arg, default) == IF IsNone(arg) THEN default ELSE arg

Max(S) == CHOOSE x \in S : \A y \in S : y <= x

Min(S) == CHOOSE x \in S : \A y \in S : x <= y

(***************************************************************************)
(* utils/authorization.py : Authenticator                                  *)
(*                                                                         *)
(* A Python value is a record of its type and its content; a str's content *)
(* is a sequence of pieces, a line ending being one piece.                 *)
(***************************************************************************)
PyStr(text) == [type |-> "str", val |-> text]

PyInt(digits) == [type |-> "int", val |-> <<digits>>]

PyBytes(text) == [type |-> "bytes", val |-> text]

\* the values a caller may offer as a key: None, text, and values of other types
TextKeys == {PyStr(<<"abc">>), PyStr(<<"apikey">>), PyStr(<<>>)}

NonTextKeys == {PyInt("123"), PyBytes(<<"abc">>)}

KeyArgs == {None} \cup {Some(k) : k \in TextKeys \cup NonTextKeys}

\* a setter that takes whatever it is given
AcceptAnything(key) == TRUE

\* isinstance(key, str)
IsInstanceStr(key) == ~IsNone(key) /\ Val(key).type = "str"

\* The files and directories from_file may be pointed at: the path and, for
\* a file, its bytes; absent from the domain when nothing is there.
KeyFiles ==
    [path \in {"api_key.txt", "key_with_newline.txt", "key_crlf.txt", "two_lines.txt",
               "empty.txt"} |->
        CASE path = "api_key.txt" -> <<"KEY123">>
          [] path = "key_with_newline.txt" -> <<"KEY123", "\n">>
          [] path = "key_crlf.txt" -> <<"KEY123", "\r\n">>
          [] path = "two_lines.txt" -> <<"KEY", "\n", "123", "\n">>
          [] path = "empty.txt" -> <<>>]

KeyDirectories == {"profile"}

KeyPaths == DOMAIN KeyFiles \cup KeyDirectories \cup {"missing.txt"}

\* os.path.isfile(file_name)
IsFile(key_file) == key_file \in DOMAIN KeyFiles

\* file.read() cut at the end of the first line
ReadFirstLine(content) ==
    LET ends == {i \in 1..Len(content) : content[i] \in {"\n", "\r\n", "\r"}}
    IN  IF ends = {} THEN content ELSE SubSeq(content, 1, Min(ends) - 1)

\* file.read() of a file opened with mode 'r': the whole content, every line
\* ending handed over as "\n"
Read(content) ==
    [i \in 1..Len(content) |->
        IF content[i] \in {"\r\n", "\r"} THEN "\n" ELSE content[i]]

ARaise(e) == [kind |-> "raise", exc |-> e, value |-> None]

AReturn(v) == [kind |-> "return", exc |-> "", value |-> v]

NoACall ==
    [op |-> "none", arg |-> None, file_name |-> "", before |-> None,
     outcome |-> ARaise("")]

\* Authenticator(key), lines 28-29
NewAuthenticator(key) == Some([_api_key |-> key])

\* Authenticator(key)
AuthenticatorInit(key) ==
    /\ auth' = NewAuthenticator(key)
    /\ acall' = [op |-> "__init__", arg |-> key, file_name |-> "", before |-> auth,
                 outcome |-> AReturn(None)]
    /\ UNCHANGED <<importer, icall, qvars, bvars, dvars>>

\* Authenticator.from_file(file_name), lines 31-42
FromFile(key_file) ==
    /\ IF IsFile(key_file)
       THEN /\ auth' = NewAuthenticator(Some(PyStr(Read(KeyFiles[key_file]))))
            /\ acall' = [op |-> "from_file", arg |-> None, file_name |-> key_file,
                         before |-> auth, outcome |-> AReturn(None)]
       ELSE /\ auth' = auth
            /\ acall' = [op |-> "from_file", arg |-> None, file_name |-> key_file,
                         before |-> auth, outcome |-> ARaise("AssertionError")]
    /\ UNCHANGED <<importer, icall, qvars, bvars, dvars>>

\* auth.api_key = key, lines 48-52 and 58-60
SetApiKey(key) ==
    /\ ~IsNone(auth)
    /\ IF IsInstanceStr(key)
       THEN /\ auth' = Some([Val(auth) EXCEPT !._api_key = key])
            /\ acall' = [op |-> "set", arg |-> key, file_name |-> "", before |-> auth,
                         outcome |-> AReturn(None)]
       ELSE /\ auth' = auth
            /\ acall' = [op |-> "set", arg |-> key, file_name |-> "", before |-> auth,
                         outcome |-> ARaise("AssertionError")]
    /\ UNCHANGED <<importer, icall, qvars, bvars, dvars>>

\* auth.api_key, lines 44-46 and 54-56
GetApiKey ==
    /\ ~IsNone(auth)
    /\ acall' = [op |-> "get", arg |-> None, file_name |-> "", before |-> auth,
                 outcome |-> AReturn(Val(auth)._api_key)]
    /\ UNCHANGED <<auth, importer, icall, qvars, bvars, dvars>>

AuthNext ==
    \/ \E key \in KeyArgs : AuthenticatorInit(key)
    \/ \E key_file \in KeyPaths : FromFile(key_file)
    \/ \E key \in KeyArgs : SetApiKey(key)
    \/ GetApiKey

(***************************************************************************)
(* utils/mod_import.py : ModListImporter                                   *)
(***************************************************************************)
\* the most rows in a file of mod ids, the header row counted
MaxRows == 3

\* the texts a cell of a file may hold: mod ids and a column name
CellTexts == {"1", "2", "modids"}

\* len(text)
TextLen(text) == IF text = "modids" THEN 6 ELSE 1

\* whether int(text) succeeds
IsDigits(text) == text \in {"1", "2"}

\* a file's content: rows of the same width, each a sequence of cell texts
Tables(width) == UNION {[1..n -> [1..width -> CellTexts]] : n \in 0..MaxRows}

\* .csv files have two columns (what csv.Sniffer makes of a single column
\* hangs on the letters of its cells); sheets have one or two
CsvTables == Tables(2)

SheetTables == Tables(1) \cup Tables(2)

ColumnArgs == {0, 1}

PyList(elements) == [type |-> "list", val |-> elements]

PyTuple(elements) == [type |-> "tuple", val |-> elements]

\* the values a caller may offer as a mod list: None, lists, and values
\* that are no list
ListValues == {PyList(<<>>), PyList(<<PyInt("1"), PyInt("2")>>)}

NonListValues == {PyTuple(<<PyInt("1"), PyInt("2")>>), PyInt("5")}

ModListArgs == {None} \cup {Some(v) : v \in ListValues \cup NonListValues}

\* csv.Sniffer().sniff(csvfile.readline()): no delimiter is found in an
\* empty file nor in a line of one cell
SniffFails(table) == table = <<>> \/ Len(table[1]) < 2

\* csv.Sniffer.has_header: the type of a data cell is number, or the length
\* of its text
NumberType == 0

CellType(text) == IF IsDigits(text) THEN NumberType ELSE TextLen(text)

\* a column votes when its data cells are all of one type: for a header
\* when the first row's cell is not of that type, against it when it is; a
\* column without data cells votes for a header
Vote(table, col) ==
    LET types == {CellType(table[r][col]) : r \in 2..Len(table)}
        header == table[1][col]
    IN  IF Cardinality(types) > 1 THEN 0
        ELSE IF types = {} THEN 1
        ELSE IF types = {NumberType} THEN (IF IsDigits(header) THEN -1 ELSE 1)
        ELSE IF types # {TextLen(header)} THEN 1 ELSE -1

RECURSIVE Votes(_, _)
Votes(table, cols) ==
    IF cols = 0 THEN 0 ELSE Vote(table, cols) + Votes(table, cols - 1)

has_header(table) == Votes(table, Len(table[1])) > 0

\* the exception the loop over rows ends with, "" when it runs to its end:
\* row[modid_column] of a short row, int() of a text that is no number
RowFailure(rows, modid_column, convert) ==
    IF \A k \in 1..Len(rows) : modid_column + 1 <= Len(rows[k])
                                  /\ (convert => IsDigits(rows[k][modid_column + 1]))
    THEN ""
    ELSE LET k == Min({i \in 1..Len(rows) :
                          \/ modid_column + 1 > Len(rows[i])
                          \/ convert /\ ~IsDigits(rows[i][modid_column + 1])})
         IN  IF modid_column + 1 > Len(rows[k]) THEN "IndexError" ELSE "ValueError"

\* ModListImporter.from_csv(file_name, modid_column), up to cls(modid_array):
\* the exception raised, or "" and modid_array
from_csv(table, modid_column) ==
    IF SniffFails(table) THEN [exc |-> "csv.Error", modid_array |-> <<>>]
    ELSE LET rows == IF has_header(table) THEN Tail(table) ELSE table
             failure == RowFailure(rows, modid_column, TRUE)
         IN  IF failure # "" THEN [exc |-> failure, modid_array |-> <<>>]
             ELSE [exc |-> "",
                   modid_array |-> [k \in 1..Len(rows) |->
                                       PyInt(rows[k][modid_column + 1])]]

\* cell.value: a number for a cell that holds one, else its text
CellValue(text) == IF IsDigits(text) THEN PyInt(text) ELSE PyStr(<<text>>)

\* sheet.rows: every access starts a new iteration at the first row
SheetRows(table) == table

\* ModListImporter.from_excel(file_name, modid_column), up to cls(modid_array)
from_excel(table, modid_column) ==
    IF SheetRows(table) = <<>> THEN [exc |-> "StopIteration", modid_array |-> <<>>]
    ELSE LET rows == SheetRows(table)
             failure == RowFailure(rows, modid_column, FALSE)
         IN  IF failure # "" THEN [exc |-> failure, modid_array |-> <<>>]
             ELSE [exc |-> "",
                   modid_array |-> [k \in 1..Len(rows) |->
                                       CellValue(rows[k][modid_column + 1])]]

\* isinstance(value, list)
IsInstanceList(value) == ~IsNone(value) /\ Val(value).type = "list"

\* ModListImporter(mod_list), lines 43-49: the setter is used for the
\* default only, any other argument is stored as it is
NewImporter(arg) ==
    IF IsNone(arg) THEN Some([_mod_list |-> Some(PyList(<<>>))])
    ELSE Some([_mod_list |-> arg])

NoICall ==
    [op |-> "none", arg |-> None, table |-> <<>>, column |-> 0, before |-> None,
     outcome |-> ARaise("")]

\* ModListImporter(mod_list); the model follows one importer, from the one
\* attempt to construct it on
ModListImporterInit(arg) ==
    /\ icall.op = "none"
    /\ importer' = NewImporter(arg)
    /\ icall' = [op |-> "__init__", arg |-> arg, table |-> <<>>, column |-> 0,
                 before |-> importer, outcome |-> AReturn(None)]
    /\ UNCHANGED <<auth, acall, qvars, bvars, dvars>>

\* the end of from_csv and from_excel: cls(modid_array), unless the reading
\* raised
Imported(op, table, modid_column, read) ==
    /\ icall.op = "none"
    /\ importer' = IF read.exc = "" THEN NewImporter(Some(PyList(read.modid_array)))
                   ELSE importer
    /\ icall' = [op |-> op, arg |-> None, table |-> table, column |-> modid_column,
                 before |-> importer,
                 outcome |-> IF read.exc = "" THEN AReturn(None) ELSE ARaise(read.exc)]
    /\ UNCHANGED <<auth, acall, qvars, bvars, dvars>>

\* ModListImporter.from_csv on a file that holds table
FromCsv(table, modid_column) ==
    Imported("from_csv", table, modid_column, from_csv(table, modid_column))

\* ModListImporter.from_excel on a workbook whose active sheet holds table
FromExcel(table, modid_column) ==
    Imported("from_excel", table, modid_column, from_excel(table, modid_column))

\* importer.mod_list = value, lines 132-135 and 140-141
SetModList(value) ==
    /\ ~IsNone(importer)
    /\ IF IsInstanceList(value)
       THEN /\ importer' = Some([Val(importer) EXCEPT !._mod_list = value])
            /\ icall' = [op |-> "set", arg |-> value, table |-> <<>>, column |-> 0,
                         before |-> importer, outcome |-> AReturn(None)]
       ELSE /\ importer' = importer
            /\ icall' = [op |-> "set", arg |-> value, table |-> <<>>, column |-> 0,
                         before |-> importer, outcome |-> ARaise("AssertionError")]
    /\ UNCHANGED <<auth, acall, qvars, bvars, dvars>>

\* importer.mod_list, lines 118-130 and 137-138
GetModList ==
    /\ ~IsNone(importer)
    /\ icall' = [op |-> "get", arg |-> None, table |-> <<>>, column |-> 0,
                 before |-> importer, outcome |-> AReturn(Val(importer)._mod_list)]
    /\ UNCHANGED <<importer, auth, acall, qvars, bvars, dvars>>

ImportNext ==
    \/ \E arg \in ModListArgs : ModListImporterInit(arg)
    \/ \E table \in CsvTables, modid_column \in ColumnArgs : FromCsv(table, modid_column)
    \/ \E table \in SheetTables, modid_column \in ColumnArgs :
           FromExcel(table, modid_column)
    \/ \E value \in ModListArgs : SetModList(value)
    \/ GetModList

\* no Authenticator and no ModListImporter has been constructed
ObjectsIdle ==
    /\ auth = None
    /\ acall = NoACall
    /\ importer = None
    /\ icall = NoICall

(***************************************************************************)
(* utils/nexus_queries.py : NexusQuery                                     *)
(***************************************************************************)
\* self._base_url
BaseUrl == <<"https://", "api.nexusmods.com/v1/">>

\* the timeout keyword of the request made by NexusQuery.query, in seconds
QueryTimeout == 5

Schemes == {"https://", "http://"}

\* a fully-qualified URL starts with a scheme
IsAbsolute(u) == Len(u) > 0 /\ u[1] \in Schemes

\* the paths and URLs a caller may hand to query or to the constructor
RelativePaths == {<<"users/validate.json">>, <<"games/skyrim/mods/1.json">>}

AbsoluteUrls == {<<"https://", "api.nexusmods.com/v1/", "users/validate.json">>}

UrlArgs == {None} \cup {Some(u) : u \in RelativePaths \cup AbsoluteUrls}

\* headers dicts, by their key sets
HeaderDicts == SUBSET {"apikey", "accept"}

HeaderArgs == {None} \cup {Some(h) : h \in HeaderDicts}

ParamArgs == {None, Some("page=1")}

QueryTypes == {None, Some("get"), Some("post")}

\* the exception classes of the except clauses of query, in their order
CaughtExceptions ==
    {"ConnectionError", "Timeout", "TooManyRedirects", "HTTPError", "URLRequired"}

\* a requests.exceptions.RequestException subclass that a failing network
\* raises and no except clause names: the peer closes the connection inside
\* the body
UncaughtNetworkExceptions == {"ChunkedEncodingError"}

\* the largest mod id of the model
MaxModId == 2

ModIds == 1..MaxModId

StatusCodes == {200, 404}

\* A response body: text that is no JSON, or a JSON object, which may or may
\* not hold a "mod_id" key.
NotJson == [json |-> FALSE, mod_id |-> None]

JsonObject(m) == [json |-> TRUE, mod_id |-> m]

Bodies == {NotJson} \cup {JsonObject(m) : m \in {None} \cup {Some(i) : i \in ModIds}}

\* requests.Response(): status_code None, no content
EmptyResponse == [status_code |-> None, content |-> None]

ServerResponses ==
    {[status_code |-> Some(s), content |-> Some(b)] : s \in StatusCodes, b \in Bodies}

Raise(e) == [kind |-> "raise", exc |-> e, response |-> EmptyResponse]

Return(r) == [kind |-> "return", exc |-> "", response |-> r]

\* What self.query_type(url, ...) may do with a URL: a URL without a scheme
\* (None included) is refused with MissingSchema, another RequestException
\* subclass no except clause names, before anything is sent; a URL with a
\* scheme gets a response of some status, or fails on the way.
TransportOutcomes(url) ==
    IF IsNone(url) \/ ~IsAbsolute(Val(url))
    THEN {Raise("MissingSchema")}
    ELSE {Return(r) : r \in ServerResponses}
         \cup {Raise(e) : e \in CaughtExceptions \cup UncaughtNetworkExceptions}

\* lines 86-89: the URL that query will dispatch
ResolveUrl(self, url) ==
    IF IsNone(url) THEN self.url ELSE Some(BaseUrl \o Val(url))

\* lines 92-95: the two assertions on headers.keys(); "" when both pass
HeaderCheck(headers) ==
    IF IsNone(headers) THEN "AttributeError"
    ELSE IF "apikey" \notin Val(headers) THEN "AssertionError"
    ELSE IF "accept" \notin Val(headers) THEN "AssertionError"
    ELSE ""

\* Classify with the placeholder also standing for a non-2xx response
ClassifyDroppingHttpErrors(tr) ==
    IF tr.kind = "return" /\ Val(tr.response.status_code) \in 200..299
    THEN Return(tr.response)
    ELSE IF tr.kind = "return" \/ tr.exc \in CaughtExceptions THEN Return(EmptyResponse)
    ELSE Raise(tr.exc)

\* lines 97-117: the try block; tr is what the transport did
Classify(tr) ==
    IF tr.kind = "return" THEN Return(tr.response)
    ELSE IF tr.exc \in CaughtExceptions THEN Return(EmptyResponse)
    ELSE Raise(tr.exc)

NoDispatch ==
    [dispatched |-> FALSE, url |-> None, params |-> None, headers |-> None,
     timeout |-> None, transport |-> Raise("")]

\* NexusQuery.query(self, url, params, headers), with the transport's
\* behaviour tr: what was dispatched and what the caller got
QueryCall(self, url, params, headers, tr) ==
    LET p == OrDefault(params, self.params)
        h == OrDefault(headers, self.headers)
        u == ResolveUrl(self, url)
        check == HeaderCheck(h)
    IN  IF check # ""
        THEN [sent |-> NoDispatch, outcome |-> Raise(check)]
        ELSE IF IsNone(self.query_type)
        THEN [sent |-> NoDispatch, outcome |-> Raise("TypeError")]
        ELSE [sent |-> [dispatched |-> TRUE, url |-> u, params |-> p,
                        headers |-> h, timeout |-> Some(QueryTimeout),
                        transport |-> tr],
              outcome |-> Classify(tr)]

\* the transport behaviours possible for this call (one arbitrary behaviour
\* when the call never reaches the transport)
QueryTransport(self, url, headers) ==
    IF HeaderCheck(OrDefault(headers, self.headers)) # "" \/ IsNone(self.query_type)
    THEN {Raise("")}
    ELSE TransportOutcomes(ResolveUrl(self, url))

NoCall ==
    [op |-> "none", args |-> [url |-> None, params |-> None, headers |-> None],
     sent |-> NoDispatch, outcome |-> Raise("")]

(***************************************************************************)
(* utils/nexus_queries.py : ModFileQuery(NexusQuery)                       *)
(***************************************************************************)
GameDomains == {"skyrim"}

\* str.format of a string, or of an integer, that may be None
FmtStr(o) == IF IsNone(o) THEN "None" ELSE Val(o)

Fmt(o) == IF IsNone(o) THEN "None" ELSE ToString(Val(o))

\* "games/{domain}/mods/{mod_id}/files.json"
FilesPath(domain, mod_id) ==
    <<"games/", FmtStr(domain), "/mods/", Fmt(mod_id), "/files.json">>

\* "games/{domain}/mods/{mod_id}/files/{file_id}/download_link.json"
LinkPath(domain, mod_id, file_id) ==
    <<"games/", FmtStr(domain), "/mods/", Fmt(mod_id), "/files/", Fmt(file_id),
      "/download_link.json">>

\* "games/{game_domain}/mods/{mod_id}.json"
ModInfoPath(domain, mod_id) ==
    <<"games/", FmtStr(domain), "/mods/", Fmt(mod_id), ".json">>

(***************************************************************************)
(* utils/nexus_interface.py : NexusInterface.import_mod_info, with         *)
(* ModFileQuery.generate_mod_info, which it calls                          *)
(***************************************************************************)
\* the longest list of requested ids of the model
MaxBatch == 2

IdLists == UNION {[1..n -> ModIds] : n \in 0..MaxBatch}

\* a dict with no key
EmptyDict == [k \in {} |-> NotJson]

\* d[k] = v of a Python dict
DictSet(d, k, v) == [x \in DOMAIN d \cup {k} |-> IF x = k THEN v ELSE d[x]]

NoResult == [kind |-> "none", exc |-> "", value |-> EmptyDict]

\* os.path.normpath of the three paths NexusInterface writes to
UserProfileFile == "profile/user_profile.json"

ModInfosFile == "profile/mod_infos.json"

FileListsFile == "profile/file_lists.json"

\* a dump that leaves out the entry of the greatest key, as when the file
\* is written before the last id has been filed
DumpBeforeLast(d) ==
    LET kept == {x \in DOMAIN d : \E y \in DOMAIN d : y > x}
    IN  [k \in {ToString(x) : x \in kept} |->
            d[CHOOSE x \in kept : ToString(x) = k]]

\* json.dump(obj=d, fp=...) of a dict whose values came out of response.json():
\* a JSON object has string keys, so an integer key k is written as str(k);
\* the values are written as they were decoded
JsonDump(d) ==
    [k \in {ToString(x) : x \in DOMAIN d} |->
        d[CHOOSE x \in DOMAIN d : ToString(x) = k]]

\* `with open(path, mode="wt", ...) as f: json.dump(obj, f)`: one entry of the
\* record of written files
FileWrite(path, content) == [path |-> path, content |-> content]

\* what an earlier run of the program left in a file of profile/
EarlierContent == [k \in {"0"} |-> NotJson]

\* a file of profile/ ahead of the call: absent, or left by an earlier run
ProfileFiles == {None, Some(EarlierContent)}

\* authenticate has not been called
NoAuthResult ==
    [kind |-> "none", exc |-> "", response |-> EmptyResponse, query |-> Raise("")]

BatchIdle ==
    /\ bop = "none"
    /\ bpc = "idle"
    /\ mod_list = <<>>
    /\ response_list = <<>>
    /\ decoded_n = 0
    /\ mod_info_dict = EmptyDict
    /\ file_list_dict = EmptyDict
    /\ profile = None
    /\ file_lists = None
    /\ wire = <<>>
    /\ bresult = NoResult
    /\ user_profile = None
    /\ writes = <<>>
    /\ auth_result = NoAuthResult

\* what goes over the wire for the id at position pos: the request that
\* query dispatches, then the outcome the transport has for it
Dispatch(pos, sent) ==
    [ev |-> "dispatch", pos |-> pos, url |-> sent.url, got |-> Raise("")]

Outcome(pos, got) == [ev |-> "outcome", pos |-> pos, url |-> None, got |-> got]

\* the traffic of one call of query: nothing when it raised ahead of the
\* dispatch
Traffic(pos, c) ==
    IF c.sent.dispatched THEN <<Dispatch(pos, c.sent), Outcome(pos, c.outcome)>>
    ELSE <<>>

\* `for single_id in mod_id`: the position the loop takes after done turns
NextPosition(ids, done) == done + 1

\* import_query = ModFileQuery(game_domain=game_domain, headers=headers)
ImportQuery(game_domain) ==
    [url |-> None, query_type |-> Some("get"), params |-> None,
     headers |-> Some({"apikey", "accept"}), game_domain |-> Some(game_domain),
     mod_id |-> None, file_id |-> None]

\* response.json(): "" and the decoded object, or the exception raised
Json(response) ==
    IF IsNone(response.content) THEN [exc |-> "JSONDecodeError", value |-> NotJson]
    ELSE IF ~Val(response.content).json THEN [exc |-> "JSONDecodeError", value |-> NotJson]
    ELSE [exc |-> "", value |-> Val(response.content)]

\* decoded["mod_id"]
DictKey(decoded) == decoded.mod_id

\* lines 124-128 of import_mod_info: the call starts with the importer's list
ImportModInfoStart(ids) ==
    /\ bpc = "idle"
    /\ bop' = "import_mod_info"
    /\ mod_list' = ids
    /\ bpc' = IF ids = <<>> THEN "saving" ELSE "querying"
    /\ UNCHANGED <<response_list, decoded_n, mod_info_dict, file_list_dict, profile,
                   file_lists, wire, bresult, user_profile, writes,
                   auth_result, qvars, dvars, ovars>>

\* generate_mod_info, one turn of its loop: the query for the next id
GenerateModInfoStep ==
    /\ bpc = "querying"
    /\ LET pos == NextPosition(mod_list, Len(response_list))
           single_id == mod_list[pos]
           self == [ImportQuery("skyrim") EXCEPT
                        !.url = Some(ModInfoPath(Some("skyrim"), Some(single_id)))]
       IN  \E tr \in QueryTransport(self, self.url, self.headers) :
               LET c == QueryCall(self, self.url, self.params, self.headers, tr)
               IN  /\ wire' = wire \o Traffic(pos, c)
                   /\ IF c.outcome.kind = "raise"
                      THEN /\ bpc' = "raised"
                           /\ bresult' = [kind |-> "raise", exc |-> c.outcome.exc,
                                          value |-> EmptyDict]
                           /\ UNCHANGED response_list
                      ELSE /\ response_list' = Append(response_list, c.outcome.response)
                           /\ bpc' = IF Len(response_list) + 1 = Len(mod_list)
                                     THEN "decoding" ELSE "querying"
                           /\ UNCHANGED bresult
    /\ UNCHANGED <<bop, mod_list, decoded_n, mod_info_dict, file_list_dict, profile,
                   file_lists, user_profile, writes,
                   auth_result, qvars, dvars, ovars>>

\* lines 131-134: one turn of the decoding loop
DecodeStep ==
    /\ bpc = "decoding"
    /\ LET response == response_list[decoded_n + 1]
           j == Json(response)
           failure == IF j.exc # "" THEN j.exc
                      ELSE IF IsNone(DictKey(j.value)) THEN "KeyError"
                      ELSE ""
       IN  IF failure # ""
           THEN /\ bpc' = "raised"
                /\ bresult' = [kind |-> "raise", exc |-> failure, value |-> EmptyDict]
                /\ UNCHANGED <<decoded_n, mod_info_dict>>
           ELSE /\ mod_info_dict' = DictSet(mod_info_dict, Val(DictKey(j.value)), j.value)
                /\ decoded_n' = decoded_n + 1
                /\ bpc' = IF decoded_n + 1 = Len(response_list)
                          THEN "saving" ELSE "decoding"
                /\ UNCHANGED bresult
    /\ UNCHANGED <<bop, mod_list, response_list, file_list_dict, profile, file_lists,
                   wire, user_profile, writes,
                   auth_result, qvars, dvars, ovars>>

\* lines 136-143: the dict is written to profile/mod_infos.json and returned
SaveModInfos ==
    /\ bpc = "saving"
    /\ profile' = Some(JsonDump(mod_info_dict))
    /\ writes' = Append(writes, FileWrite(ModInfosFile, JsonDump(mod_info_dict)))
    /\ bresult' = [kind |-> "return", exc |-> "", value |-> mod_info_dict]
    /\ bpc' = "done"
    /\ UNCHANGED <<bop, mod_list, response_list, decoded_n, mod_info_dict,
                   file_list_dict, file_lists, wire, user_profile, auth_result,
                   qvars, dvars, ovars>>

(***************************************************************************)
(* utils/nexus_interface.py : NexusInterface.import_file_list, with        *)
(* ModFileQuery.list_files, which it calls                                 *)
(***************************************************************************)
\* lines 162-174 of import_file_list: the call starts with the importer's list
ImportFileListStart(ids) ==
    /\ bpc = "idle"
    /\ bop' = "import_file_list"
    /\ mod_list' = ids
    /\ bpc' = IF ids = <<>> THEN "saving_lists" ELSE "listing"
    /\ UNCHANGED <<response_list, decoded_n, mod_info_dict, file_list_dict, profile,
                   file_lists, wire, bresult, user_profile, writes,
                   auth_result, qvars, dvars, ovars>>

\* lines 175-179, one turn of the loop: list_files for the next id, the
\* response decoded at once and filed under the id
ImportFileListStep ==
    /\ bpc = "listing"
    /\ LET pos == NextPosition(mod_list, Len(response_list))
           single_id == mod_list[pos]
           self == [ImportQuery("skyrim") EXCEPT
                        !.url = Some(FilesPath(Some("skyrim"), Some(single_id)))]
       IN  \E tr \in QueryTransport(self, self.url, self.headers) :
               LET c == QueryCall(self, self.url, self.params, self.headers, tr)
                   j == Json(c.outcome.response)
               IN  /\ wire' = wire \o Traffic(pos, c)
                   /\ IF c.outcome.kind = "raise"
                      THEN /\ bpc' = "raised"
                           /\ bresult' = [kind |-> "raise", exc |-> c.outcome.exc,
                                          value |-> EmptyDict]
                           /\ UNCHANGED <<response_list, file_list_dict>>
                      ELSE /\ response_list' = Append(response_list, c.outcome.response)
                           /\ IF j.exc # ""
                              THEN /\ bpc' = "raised"
                                   /\ bresult' = [kind |-> "raise", exc |-> j.exc,
                                                  value |-> EmptyDict]
                                   /\ UNCHANGED file_list_dict
                              ELSE /\ file_list_dict' =
                                          DictSet(file_list_dict, single_id, j.value)
                                   /\ bpc' = IF Len(response_list) + 1 = Len(mod_list)
                                             THEN "saving_lists" ELSE "listing"
                                   /\ UNCHANGED bresult
    /\ UNCHANGED <<bop, mod_list, decoded_n, mod_info_dict, profile, file_lists,
                   user_profile, writes,
                   auth_result, qvars, dvars, ovars>>

\* lines 181-188: the dict is written to profile/file_lists.json and returned
SaveFileLists ==
    /\ bpc = "saving_lists"
    /\ file_lists' = Some(JsonDump(file_list_dict))
    /\ writes' = Append(writes, FileWrite(FileListsFile, JsonDump(file_list_dict)))
    /\ bresult' = [kind |-> "return", exc |-> "", value |-> file_list_dict]
    /\ bpc' = "done"
    /\ UNCHANGED <<bop, mod_list, response_list, decoded_n, mod_info_dict,
                   file_list_dict, profile, wire, user_profile, auth_result,
                   qvars, dvars, ovars>>

(***************************************************************************)
(* utils/nexus_interface.py : NexusInterface.authenticate                  *)
(***************************************************************************)
\* query = nexus_queries.NexusQuery(query_type=requests.get, headers=headers)
ValidateQuery ==
    [url |-> None, query_type |-> Some("get"), params |-> None,
     headers |-> Some({"apikey", "accept"}), game_domain |-> None,
     mod_id |-> None, file_id |-> None]

ValidatePath == <<"users/validate.json">>

\* response.raise_for_status(): it compares 400 <= self.status_code, which
\* is a TypeError for the status_code None of requests.Response(), and it
\* raises HTTPError for a status of 400..599; "" when it returns
RaiseForStatus(response) ==
    IF IsNone(response.status_code) THEN "TypeError"
    ELSE IF Val(response.status_code) \in 400..599 THEN "HTTPError"
    ELSE ""

\* what authenticate does with the response that query handed back, lines
\* 72-91: the exception that leaves it, or the response it returns, and
\* whether it gets as far as writing the file
AfterQuery(response) ==
    LET raised == RaiseForStatus(response)
        j == Json(response)
    IN  IF raised = "HTTPError"
        THEN [kind |-> "return", exc |-> "", response |-> EmptyResponse,
              saved |-> FALSE]
        ELSE IF raised # ""
        THEN [kind |-> "raise", exc |-> raised, response |-> EmptyResponse,
              saved |-> FALSE]
        ELSE IF response.status_code # Some(200)
        THEN [kind |-> "return", exc |-> "", response |-> EmptyResponse,
              saved |-> FALSE]
        ELSE IF j.exc # ""
        THEN [kind |-> "raise", exc |-> j.exc, response |-> EmptyResponse,
              saved |-> FALSE]
        ELSE [kind |-> "return", exc |-> "", response |-> response,
              saved |-> TRUE]

\* NexusInterface.authenticate(): the validation query, the checks of the
\* response, the write of profile/user_profile.json and the return
Authenticate ==
    /\ bpc = "idle"
    /\ bop' = "authenticate"
    /\ LET self == ValidateQuery
           url == Some(ValidatePath)
       IN  \E tr \in QueryTransport(self, url, self.headers) :
               LET c == QueryCall(self, url, None, self.headers, tr)
                   a == AfterQuery(c.outcome.response)
               IN  IF c.outcome.kind = "raise"
                   THEN /\ auth_result' = [kind |-> "raise", exc |-> c.outcome.exc,
                                           response |-> EmptyResponse,
                                           query |-> c.outcome]
                        /\ bpc' = "raised"
                        /\ UNCHANGED <<user_profile, writes>>
                   ELSE /\ auth_result' = [kind |-> a.kind, exc |-> a.exc,
                                           response |-> a.response,
                                           query |-> c.outcome]
                        /\ bpc' = IF a.kind = "raise" THEN "raised" ELSE "done"
                        /\ IF a.saved
                           THEN /\ user_profile' = Some(Json(c.outcome.response).value)
                                /\ writes' = Append(writes,
                                       FileWrite(UserProfileFile,
                                                 Json(c.outcome.response).value))
                           ELSE UNCHANGED <<user_profile, writes>>
    /\ UNCHANGED <<mod_list, response_list, decoded_n, mod_info_dict, file_list_dict,
                   profile, file_lists, wire, bresult, qvars, dvars, ovars>>

(***************************************************************************)
(* utils/mod_download.py : get_mod_name_from_url                           *)
(*                                                                         *)
(* A URL, a folder or a file name is a sequence of pieces: "/", "?", a     *)
(* line break, or a non-empty run of other characters.                     *)
(***************************************************************************)
Positions(s, c) == {i \in 1..Len(s) : s[i] = c}

\* str.split(sep): the parts between the separators, empty ones included
RECURSIVE Split(_, _)
Split(s, sep) ==
    IF Positions(s, sep) = {} THEN <<s>>
    ELSE LET i == Min(Positions(s, sep))
         IN  <<SubSeq(s, 1, i - 1)>> \o Split(SubSeq(s, i + 1, Len(s)), sep)

\* the lengths n >= 1 of the prefixes of last_part that `.+` can match (`.`
\* matches any character but a line break) and that a "?" follows
MatchEnds(last_part) ==
    {n \in 1..(Len(last_part) - 1) :
        /\ last_part[n + 1] = "?"
        /\ \A i \in 1..n : last_part[i] # "\n"}

\* re.match(r"^.+(?=\?)", last_part) with the lazy `.+?` in place of `.+`
LazyRegexMatch(last_part) ==
    IF MatchEnds(last_part) = {} THEN None
    ELSE Some(SubSeq(last_part, 1, Min(MatchEnds(last_part))))

\* re.match(r"^.+(?=\?)", last_part): `.+` is greedy, so the match is the
\* longest of those prefixes; None when there is none
RegexMatch(last_part) ==
    IF MatchEnds(last_part) = {} THEN None
    ELSE Some(SubSeq(last_part, 1, Max(MatchEnds(last_part))))

\* get_mod_name_from_url(url): the name, or the ValueError raised
get_mod_name_from_url(url) ==
    LET parts == Split(url, "/")
        last_part == parts[Len(parts)]
        match == RegexMatch(last_part)
    IN  IF ~IsNone(match)
        THEN [exc |-> "", file_name |-> Val(match)]
        ELSE [exc |-> "ValueError", file_name |-> <<>>]

(***************************************************************************)
(* utils/mod_download.py : download_with_progress_bar, FileDownloader      *)
(***************************************************************************)
\* the most chunks a response body is streamed in
MaxChunks == 3

\* the most bytes in a chunk: chunk_size of iter_content, scaled down
MaxChunkLen == 2

Bytes == {0, 1}

Chunks == UNION {[1..n -> Bytes] : n \in 1..MaxChunkLen}

DownloadUrls ==
    {<<"https:", "/", "/", "cdn", "/", "x", "/", "File_1.7z", "?", "md5=1">>,
     <<"https:", "/", "/", "cdn", "/", "x", "/", "plainfile">>,
     <<"plainfile">>}

\* write_folder: the default "mod_downloads/", and folders given without the
\* trailing separator
WriteFolders == {<<"mod_downloads", "/">>, <<"out">>, <<"a", "/", "out">>}

\* the names of a path, "/" and empty names dropped
Names(path) == SelectSeq(Split(path, "/"), LAMBDA part : part # <<>>)

\* os.path.dirname(path): up to the last "/", trailing separators stripped
\* unless nothing else is there
RECURSIVE RStrip(_)
RStrip(s) ==
    IF s # <<>> /\ s[Len(s)] = "/" THEN RStrip(SubSeq(s, 1, Len(s) - 1)) ELSE s

Dirname(path) ==
    LET slashes == Positions(path, "/")
        head == IF slashes = {} THEN <<>> ELSE SubSeq(path, 1, Max(slashes))
    IN  IF RStrip(head) = <<>> THEN head ELSE RStrip(head)

\* os.makedirs(name, exist_ok=True): the directories to exist afterwards;
\* the empty name is refused with FileNotFoundError
MakeDirs(ds, name) ==
    IF name = <<>>
    THEN [exc |-> "FileNotFoundError", dirs |-> ds]
    ELSE [exc |-> "",
          dirs |-> ds \cup {SubSeq(Names(name), 1, n) : n \in 0..Len(Names(name))}]

\* open(path, "ab"): as open(path, "wb") but for the content of a file that
\* is there, which is kept
OpenKeepingContent(ds, fs, path) ==
    LET names == Names(path)
    IN  IF names = <<>> \/ path[Len(path)] = "/" \/ names \in ds
        THEN [exc |-> "IsADirectoryError", files |-> fs]
        ELSE IF SubSeq(names, 1, Len(names) - 1) \notin ds
        THEN [exc |-> "FileNotFoundError", files |-> fs]
        ELSE [exc |-> "",
              files |-> [f \in DOMAIN fs \cup {names} |->
                            IF f \in DOMAIN fs THEN fs[f] ELSE <<>>]]

\* open(path, "wb"): the file is created or truncated, when its directory
\* exists and the path names no directory
Open(ds, fs, path) ==
    LET names == Names(path)
    IN  IF names = <<>> \/ path[Len(path)] = "/" \/ names \in ds
        THEN [exc |-> "IsADirectoryError", files |-> fs]
        ELSE IF SubSeq(names, 1, Len(names) - 1) \notin ds
        THEN [exc |-> "FileNotFoundError", files |-> fs]
        ELSE [exc |-> "",
              files |-> [f \in DOMAIN fs \cup {names} |->
                            IF f = names THEN <<>> ELSE fs[f]]]

\* output_file.write(data) with the data put in front of what is in the file
WriteInFront(fs, path, data) ==
    [fs EXCEPT ![path] = data \o @]

\* output_file.write(data): the data is appended to the file
Write(fs, path, data) ==
    [fs EXCEPT ![path] = @ \o data]

\* tqdm: after each turn of the loop the bar advances by one
BarUpdate(bar) ==
    Append(bar, [n |-> 1, total |-> Len(bar) + 1])

NoTask == [url |-> <<>>, write_folder |-> <<>>]

NoFiles == [f \in {} |-> <<>>]

DRaise(e, stage) == [kind |-> "raise", exc |-> e, at |-> stage, value |-> None]

\* a failure inside the loop answered with a plain return
SwallowInLoop(e, stage) == [kind |-> "return", exc |-> "", at |-> stage, value |-> None]

\* lines 89-96 have no try: an exception inside the loop leaves the function
RaiseInLoop(e, stage) == DRaise(e, stage)

DReturn(v) == [kind |-> "return", exc |-> "", at |-> "end", value |-> v]

NoDResult == [kind |-> "none", exc |-> "", at |-> "", value |-> None]

DownloadIdle ==
    /\ dpc = "idle"
    /\ task = NoTask
    /\ file_name = <<>>
    /\ name_error = FALSE
    /\ dirs = {<<>>}
    /\ files = NoFiles
    /\ out_path = <<>>
    /\ received = <<>>
    /\ progress = <<>>
    /\ net = <<>>
    /\ dresult = NoDResult

\* line 78: os.makedirs(os.path.dirname(write_folder), exist_ok=True)
Begin(url, write_folder) ==
    LET made == MakeDirs(dirs, Dirname(write_folder))
    IN  /\ task' = [url |-> url, write_folder |-> write_folder]
        /\ dirs' = made.dirs
        /\ IF made.exc # ""
           THEN dpc' = "raised" /\ dresult' = DRaise(made.exc, "makedirs")
           ELSE dpc' = "naming" /\ UNCHANGED dresult
        /\ UNCHANGED <<file_name, name_error, files, out_path, received, progress,
                       net, qvars, bvars, ovars>>

\* download_with_progress_bar(url, write_folder), called directly
DownloadWithProgressBar(url, write_folder) ==
    /\ dpc = "idle"
    /\ Begin(url, write_folder)

\* FileDownloader(self_url).download(url, write_folder)
FileDownloaderDownload(self_url, url, write_folder) ==
    /\ dpc = "idle"
    /\ LET u == OrDefault(url, self_url)
       IN  IF IsNone(u)
           THEN /\ dpc' = "raised"
                /\ dresult' = DRaise("AssertionError", "download")
                /\ UNCHANGED <<task, file_name, name_error, dirs, files, out_path,
                               received, progress, net, qvars, bvars, ovars>>
           ELSE Begin(Val(u), write_folder)

\* lines 80-87: the file name, or the whole url when extraction raises
ResolveName ==
    /\ dpc = "naming"
    /\ LET got == get_mod_name_from_url(task.url)
       IN  /\ name_error' = (got.exc = "ValueError")
           /\ file_name' = IF got.exc = "ValueError" THEN task.url ELSE got.file_name
    /\ dpc' = "open"
    /\ UNCHANGED <<task, dirs, files, out_path, received, progress, net, dresult,
                   qvars, bvars, ovars>>

\* line 90: open(write_folder + file_name, "wb")
OpenOutput ==
    /\ dpc = "open"
    /\ LET path == task.write_folder \o file_name
           opened == Open(dirs, files, path)
       IN  /\ files' = opened.files
           /\ IF opened.exc # ""
              THEN /\ dpc' = "raised"
                   /\ dresult' = DRaise(opened.exc, "open")
                   /\ UNCHANGED out_path
              ELSE /\ dpc' = "get"
                   /\ out_path' = Names(path)
                   /\ UNCHANGED dresult
    /\ UNCHANGED <<task, file_name, name_error, dirs, received, progress, net,
                   qvars, bvars, ovars>>

\* a URL that starts with "http://" or "https://"
HasScheme(url) ==
    Len(url) >= 3 /\ url[1] \in {"https:", "http:"} /\ url[2] = "/" /\ url[3] = "/"

\* requests.get(url, stream=True) as the network sees it: the URL, the
\* timeout (none is given) and the status of the response, None when no
\* response came
GetCall(url, status) == [url |-> url, timeout |-> None, status |-> status]

\* line 91: response = requests.get(url, stream=True), no timeout given; a
\* URL without a scheme is refused, any other gets a response to stream (of
\* whatever status, which is not looked at) or fails to connect
Get ==
    /\ dpc = "get"
    /\ IF ~HasScheme(task.url)
       THEN /\ net' = Append(net, GetCall(task.url, None))
            /\ dpc' = "raised" /\ dresult' = DRaise("MissingSchema", "get")
       ELSE \/ /\ \E s \in StatusCodes : net' = Append(net, GetCall(task.url, Some(s)))
               /\ dpc' = "stream" /\ UNCHANGED dresult
            \/ /\ net' = Append(net, GetCall(task.url, None))
               /\ dpc' = "raised" /\ dresult' = DRaise("ConnectionError", "get")
    /\ UNCHANGED <<task, file_name, name_error, dirs, files, out_path, received,
                   progress, qvars, bvars, ovars>>

\* lines 93-96, one turn of the loop: the next chunk is written
WriteChunk(data) ==
    /\ dpc = "stream"
    /\ Len(received) < MaxChunks
    /\ received' = Append(received, data)
    /\ files' = Write(files, out_path, data)
    /\ progress' = BarUpdate(progress)
    /\ UNCHANGED <<dpc, task, file_name, name_error, dirs, out_path, net, dresult,
                   qvars, bvars, ovars>>

\* line 96 failing: write raises OSError with the first n bytes stored
WriteFails(data, n) ==
    /\ dpc = "stream"
    /\ n < Len(data)
    /\ Len(received) < MaxChunks
    /\ received' = Append(received, data)
    /\ files' = Write(files, out_path, SubSeq(data, 1, n))
    /\ dpc' = "raised"
    /\ dresult' = RaiseInLoop("OSError", "write")
    /\ UNCHANGED <<task, file_name, name_error, dirs, out_path, progress, net,
                   qvars, bvars, ovars>>

\* line 93 failing: iter_content raises, the connection broke inside the body
StreamFails ==
    /\ dpc = "stream"
    /\ dpc' = "raised"
    /\ dresult' = RaiseInLoop("ChunkedEncodingError", "stream")
    /\ UNCHANGED <<task, file_name, name_error, dirs, files, out_path, received,
                   progress, net, qvars, bvars, ovars>>

\* the body is exhausted: the file is closed and the function ends, with no
\* return statement
Finish ==
    /\ dpc = "stream"
    /\ dpc' = "done"
    /\ dresult' = DReturn(None)
    /\ UNCHANGED <<task, file_name, name_error, dirs, files, out_path, received,
                   progress, net, qvars, bvars, ovars>>

\* what an earlier download left at the destination; its bytes are none
\* that a response of the model carries
OldContent == <<2, 2>>

\* the disk a download starts on: nothing there, or the folder mod_downloads
\* with an earlier File_1.7z and another file next to it
Disks ==
    {[dirs |-> {<<>>}, files |-> NoFiles],
     [dirs |-> {<<>>, <<<<"mod_downloads">>>>},
      files |-> (<<<<"mod_downloads">>, <<"File_1.7z">>>> :> OldContent)
                @@ (<<<<"mod_downloads">>, <<"readme">>>> :> <<2>>)]}

DownloadInit ==
    /\ qobj = ImportQuery("skyrim")
    /\ call = NoCall
    /\ defaults = qobj
    /\ BatchIdle
    /\ dpc = "idle"
    /\ task = NoTask
    /\ file_name = <<>>
    /\ name_error = FALSE
    /\ \E disk \in Disks : dirs = disk.dirs /\ files = disk.files
    /\ out_path = <<>>
    /\ received = <<>>
    /\ progress = <<>>
    /\ net = <<>>
    /\ dresult = NoDResult
    /\ ObjectsIdle

DownloadNext ==
    \/ \E url \in DownloadUrls, write_folder \in WriteFolders :
           DownloadWithProgressBar(url, write_folder)
    \/ \E self_url \in {None} \cup {Some(u) : u \in DownloadUrls},
          url \in {None} \cup {Some(u) : u \in DownloadUrls},
          write_folder \in WriteFolders :
           FileDownloaderDownload(self_url, url, write_folder)
    \/ ResolveName
    \/ OpenOutput
    \/ Get
    \/ \E data \in Chunks : WriteChunk(data)
    \/ \E data \in Chunks, n \in 0..(MaxChunkLen - 1) : WriteFails(data, n)
    \/ StreamFails
    \/ Finish

DownloadSpec == DownloadInit /\ [][DownloadNext]_vars

(***************************************************************************)
(* File-name resolution on its own: lines 80-87 applied to every URL of    *)
(* at most MaxUrlLen pieces.                                               *)
(***************************************************************************)
MaxUrlLen == 4

UrlPieces == {"/", "?", "a", "\n"}

AllUrls == UNION {[1..n -> UrlPieces] : n \in 0..MaxUrlLen}

NameInit ==
    /\ qobj = ImportQuery("skyrim")
    /\ call = NoCall
    /\ defaults = qobj
    /\ BatchIdle
    /\ dpc = "naming"
    /\ task \in [url : AllUrls, write_folder : {<<"mod_downloads", "/">>}]
    /\ file_name = <<>>
    /\ name_error = FALSE
    /\ dirs = {<<>>, <<<<"mod_downloads">>>>}
    /\ files = NoFiles
    /\ out_path = <<>>
    /\ received = <<>>
    /\ progress = <<>>
    /\ net = <<>>
    /\ dresult = NoDResult
    /\ ObjectsIdle

NameNext == ResolveName

NameSpec == NameInit /\ [][NameNext]_vars

(***************************************************************************)
(* The specifications: the Authenticator, the batched import, and the      *)
(* query client.                                                           *)
(***************************************************************************)
AuthInit ==
    /\ qobj = ImportQuery("skyrim")
    /\ call = NoCall
    /\ defaults = qobj
    /\ BatchIdle
    /\ DownloadIdle
    /\ ObjectsIdle

AuthSpec == AuthInit /\ [][AuthNext]_vars

ImportInit ==
    /\ qobj = ImportQuery("skyrim")
    /\ call = NoCall
    /\ defaults = qobj
    /\ BatchIdle
    /\ DownloadIdle
    /\ ObjectsIdle

ImportSpec == ImportInit /\ [][ImportNext]_vars

BatchInit ==
    /\ qobj = ImportQuery("skyrim")
    /\ call = NoCall
    /\ defaults = qobj
    /\ bop = "none"
    /\ bpc = "idle"
    /\ mod_list = <<>>
    /\ response_list = <<>>
    /\ decoded_n = 0
    /\ mod_info_dict = EmptyDict
    /\ file_list_dict = EmptyDict
    /\ profile \in ProfileFiles
    /\ file_lists \in ProfileFiles
    /\ wire = <<>>
    /\ bresult = NoResult
    /\ user_profile \in ProfileFiles
    /\ writes = <<>>
    /\ auth_result = NoAuthResult
    /\ DownloadIdle
    /\ ObjectsIdle

BatchNext ==
    \/ \E ids \in IdLists : ImportModInfoStart(ids)
    \/ GenerateModInfoStep
    \/ DecodeStep
    \/ SaveModInfos
    \/ \E ids \in IdLists : ImportFileListStart(ids)
    \/ ImportFileListStep
    \/ SaveFileLists
    \/ Authenticate

BatchSpec == BatchInit /\ [][BatchNext]_vars

\* NexusQuery.__init__ and ModFileQuery.__init__
Init ==
    /\ qobj \in [url : {None} \cup {Some(u) : u \in AbsoluteUrls},
                 query_type : QueryTypes,
                 params : {None},
                 headers : HeaderArgs,
                 game_domain : {Some(d) : d \in GameDomains},
                 mod_id : {None},
                 file_id : {None}]
    /\ call = NoCall
    /\ defaults = qobj
    /\ BatchIdle
    /\ DownloadIdle
    /\ ObjectsIdle

\* one call of NexusQuery.query on object self, made by method op
DoQuery(op, self, url, params, headers) ==
    \E tr \in QueryTransport(self, url, headers) :
        LET c == QueryCall(self, url, params, headers, tr)
        IN  /\ call' = [op |-> op,
                        args |-> [url |-> url, params |-> params, headers |-> headers],
                        sent |-> c.sent, outcome |-> c.outcome]
            /\ qobj' = self
            /\ UNCHANGED <<defaults, bvars, dvars, ovars>>

\* NexusQuery.query
Query(url, params, headers) == DoQuery("query", qobj, url, params, headers)

\* ModFileQuery.list_files
ListFiles(game_domain, mod_id, params, headers) ==
    LET d == OrDefault(game_domain, qobj.game_domain)
        m == OrDefault(mod_id, qobj.mod_id)
        p == OrDefault(params, qobj.params)
        h == OrDefault(headers, qobj.headers)
        self == [qobj EXCEPT !.url = Some(FilesPath(d, m))]
    IN  DoQuery("list_files", self, self.url, p, h)

\* ModFileQuery.generate_link
GenerateLink(game_domain, mod_id, file_id, params, headers) ==
    LET d == OrDefault(game_domain, qobj.game_domain)
        m == OrDefault(mod_id, qobj.mod_id)
        f == OrDefault(file_id, qobj.file_id)
        p == OrDefault(params, qobj.params)
        h == OrDefault(headers, qobj.headers)
        self == [qobj EXCEPT !.url = Some(LinkPath(d, m, f))]
    IN  DoQuery("generate_link", self, self.url, p, h)

\* ModFileQuery.generate_mod_info with a list of one id: the one turn of its
\* loop (lists of every length are the matter of GenerateModInfoStep)
GenerateModInfo(single_id, game_domain, params, headers) ==
    LET d == OrDefault(game_domain, qobj.game_domain)
        p == OrDefault(params, qobj.params)
        h == OrDefault(headers, qobj.headers)
        self == [qobj EXCEPT !.url = Some(ModInfoPath(d, Some(single_id)))]
    IN  DoQuery("generate_mod_info", self, self.url, p, h)

ModIdArgs == {None, Some(1)}

FileIdArgs == {None, Some(7)}

Next ==
    \/ \E url \in UrlArgs, params \in ParamArgs, headers \in HeaderArgs :
           Query(url, params, headers)
    \/ \E mod_id \in ModIdArgs, headers \in HeaderArgs :
           ListFiles(None, mod_id, None, headers)
    \/ \E mod_id \in ModIdArgs, file_id \in FileIdArgs, headers \in HeaderArgs :
           GenerateLink(None, mod_id, file_id, None, headers)
    \/ \E headers \in HeaderArgs : GenerateModInfo(1, None, None, headers)

Spec == Init /\ [][Next]_vars

(***************************************************************************)
(* Properties of the query client.                                         *)
(***************************************************************************)
Dispatched == call.op # "none" /\ call.sent.dispatched

TransportRaised == Dispatched /\ call.sent.transport.kind = "raise"

\* C2: whenever the transport raises while query dispatches (a connection
\* failure, a timeout, too many redirects, a missing URL or any other request
\* exception), query hands a value back to its caller instead of raising.
C2_NoTransportExceptionEscapes ==
    TransportRaised => call.outcome.kind = "return"

\* the case of C2: the transport raised an exception no except clause names
C2_Witness ==
    /\ TransportRaised
    /\ call.sent.transport.exc = "ChunkedEncodingError"
    /\ call.outcome = Raise("ChunkedEncodingError")

\* the headers a call works with: its own, or the instance defaults
EffectiveHeaders == OrDefault(call.args.headers, qobj.headers)

LacksRequired(h) == IsNone(h) \/ "apikey" \notin Val(h) \/ "accept" \notin Val(h)

\* C3: when the effective headers lack apikey or accept (both sources absent
\* included), query fails with the configuration error of its header
\* assertions and the transport is never invoked.
C3_MissingHeaderIsConfigurationError ==
    (call.op # "none" /\ LacksRequired(EffectiveHeaders))
        => (call.outcome = Raise("AssertionError") /\ ~call.sent.dispatched)

\* the case of C3: neither the call nor the instance has headers
C3_Witness ==
    /\ call.op = "query"
    /\ IsNone(call.args.headers) /\ IsNone(qobj.headers)
    /\ call.outcome = Raise("AttributeError")
    /\ ~call.sent.dispatched

\* C4: a fully-qualified URL passed to query is dispatched unchanged, any
\* other path is dispatched as the base URL followed by the path, and the
\* URL handed to the transport is always absolute, the stored url attribute
\* included.
C4_UrlResolution ==
    Dispatched =>
        /\ ~IsNone(call.sent.url) /\ IsAbsolute(Val(call.sent.url))
        /\ IsNone(call.args.url) => call.sent.url = qobj.url
        /\ (~IsNone(call.args.url) /\ IsAbsolute(Val(call.args.url)))
               => call.sent.url = call.args.url
        /\ (~IsNone(call.args.url) /\ ~IsAbsolute(Val(call.args.url)))
               => call.sent.url = Some(BaseUrl \o Val(call.args.url))

\* the case of C4: a fully-qualified URL was passed and the base URL was put
\* in front of it
C4_Witness ==
    /\ Dispatched
    /\ call.args.url \in {Some(u) : u \in AbsoluteUrls}
    /\ call.sent.url = Some(BaseUrl \o Val(call.args.url))

\* what a caller can read off the value query returned
IsSuccess(r) == ~IsNone(r.status_code) /\ Val(r.status_code) \in 200..299

IsHttpError(r) == ~IsNone(r.status_code) /\ Val(r.status_code) \notin 200..299

IsEmpty(r) == IsNone(r.status_code)

\* the four network failure kinds of the outcome type, as the transport
\* raises them
NetworkFailures == {"ConnectionError", "Timeout", "TooManyRedirects", "URLRequired"}

FailedWith(c, e) ==
    /\ c.op # "none" /\ c.sent.dispatched
    /\ c.sent.transport = Raise(e)

C16_NoStateBetweenRequests ==
    Dispatched =>
        call.sent.url = IF IsNone(call.args.url) THEN defaults.url
                        ELSE Some(BaseUrl \o Val(call.args.url))

\* the case of C16: query() without a url, on an object that list_files was
\* called on before, dispatches the path list_files left in self.url
C16_Witness ==
    /\ Dispatched
    /\ call.op = "query"
    /\ IsNone(call.args.url)
    /\ defaults.url = Some(<<"https://", "api.nexusmods.com/v1/", "users/validate.json">>)
    /\ call.sent.url = Some(FilesPath(Some("skyrim"), Some(1)))

(***************************************************************************)
(* Properties of the batched metadata import.                              *)
(***************************************************************************)
RequestedIds == {mod_list[k] : k \in 1..Len(mod_list)}

\* the id at position k is requested once only
OnceRequested(k) == \A j \in 1..Len(mod_list) : mod_list[j] = mod_list[k] => j = k

\* the query for position k came back 2xx with a body that decodes
Succeeded(k) ==
    /\ k <= Len(response_list)
    /\ IsSuccess(response_list[k])
    /\ Json(response_list[k]).exc = ""

\* an entry that stands for a failure carries no decoded data
IsFetchError(entry) == ~entry.json

BatchEnded == bpc \in {"done", "raised"}

\* generate_mod_info got a response object for every requested id
AllQueried == Len(response_list) = Len(mod_list)

\* C1: import_mod_info never aborts because of one item: whatever response
\* query handed back for each id (a success, a non-2xx response, the empty
\* response of a transport failure, an undecodable body), the call returns
\* a result that maps every successful id to its decoded data and every
\* failed id to a FetchError entry.
C1_BatchNeverAborts ==
    (bop = "import_mod_info" /\ BatchEnded /\ AllQueried) =>
        /\ bresult.kind = "return"
        /\ \A k \in 1..Len(mod_list) :
               OnceRequested(k) =>
                   /\ mod_list[k] \in DOMAIN bresult.value
                   /\ IF Succeeded(k)
                      THEN bresult.value[mod_list[k]] = Json(response_list[k]).value
                      ELSE IsFetchError(bresult.value[mod_list[k]])

\* the case of C1: the first id's query succeeded with the body of that very
\* mod, the second id's query failed, and the call raised: nothing is returned
C1_Witness ==
    /\ bop = "import_mod_info"
    /\ bpc = "raised"
    /\ Len(mod_list) = 2 /\ Len(response_list) = 2
    /\ Succeeded(1)
    /\ Json(response_list[1]).value = JsonObject(Some(mod_list[1]))
    /\ ~Succeeded(2)
    /\ bresult.value = EmptyDict

\* C9: the result import_mod_info returns is keyed by the requested ids:
\* its key set is the set of requested ids, and the entry of a requested id
\* holds the outcome of that id's query, whatever "mod_id" the decoded body
\* carries.
C9_KeyedByRequestedId ==
    (bop = "import_mod_info" /\ bpc = "done") =>
        /\ DOMAIN bresult.value = RequestedIds
        /\ \A k \in 1..Len(mod_list) :
               OnceRequested(k) =>
                   bresult.value[mod_list[k]] = Json(response_list[k]).value

\* the case of C9: the call returned, and the body of the one requested id
\* carried another mod_id, under which the entry is filed
C9_Witness ==
    /\ bop = "import_mod_info"
    /\ bpc = "done"
    /\ Len(mod_list) = 1
    /\ mod_list[1] \notin DOMAIN bresult.value
    /\ DOMAIN bresult.value = {Val(Json(response_list[1]).value.mod_id)}

(***************************************************************************)
(* Properties of the batched file-list import.                             *)
(***************************************************************************)
\* the requests the batch has dispatched, in order
Dispatches == SelectSeq(wire, LAMBDA e : e.ev = "dispatch")

\* query let an exception of the transport through, which ends any batch
QueryRaised == bresult.kind = "raise" /\ bresult.exc \in UncaughtNetworkExceptions

\* C11: import_file_list follows the per-item policy: it queries
\* games/{domain}/mods/{id}/files.json once per requested id, is not aborted
\* by an item, and returns a result keyed by the requested ids in which an
\* id whose query gave a 2xx response with a decodable body is mapped to the
\* decoded data and any other id (non-2xx response, transport failure,
\* undecodable body) is mapped to a FetchError entry.
C11_FileListPerItemPolicy ==
    (bop = "import_file_list" /\ BatchEnded /\ ~QueryRaised) =>
        /\ bresult.kind = "return"
        /\ Len(Dispatches) = Len(mod_list)
        /\ \A k \in 1..Len(mod_list) :
               /\ Dispatches[k].url =
                      Some(BaseUrl \o FilesPath(Some("skyrim"), Some(mod_list[k])))
               /\ mod_list[k] \in DOMAIN bresult.value
               /\ OnceRequested(k) =>
                      IF Succeeded(k)
                      THEN bresult.value[mod_list[k]] = Json(response_list[k]).value
                      ELSE IsFetchError(bresult.value[mod_list[k]])

\* the case of C11: the first id's file list came back and was decoded, the
\* query for the second id timed out, and decoding the empty response that
\* query returned for it raised: the call returns nothing, the first id's
\* file list is discarded and profile/file_lists.json is not written
C11_Witness ==
    /\ bop = "import_file_list"
    /\ bpc = "raised"
    /\ bresult.exc = "JSONDecodeError"
    /\ Len(mod_list) = 2
    /\ Succeeded(1)
    /\ response_list[2] = EmptyResponse
    /\ DOMAIN file_list_dict = {mod_list[1]}
    /\ file_lists = None

\* the path the running method queries for an id
BatchPath(single_id) ==
    IF bop = "import_file_list" THEN FilesPath(Some("skyrim"), Some(single_id))
    ELSE ModInfoPath(Some("skyrim"), Some(single_id))

\* generate_mod_info has handed its response list to import_mod_info
GenerateModInfoReturned ==
    bop = "import_mod_info" /\ (bpc \in {"decoding", "saving", "done"} \/ decoded_n > 0)

\* C19: the queries of a batch (generate_mod_info, import_file_list) go out
\* one at a time and in the order of the ids: the query for position k + 1
\* is dispatched after the outcome for position k is there and asks for the
\* id at k + 1; when the batch has ended exactly one query per element of
\* the id sequence has been dispatched, duplicates included; and the list
\* generate_mod_info returns is as long as the id sequence, its k-th
\* response being the outcome of the k-th id's query.
C19_SequentialInOrder ==
    /\ Len(wire) = 2 * Len(Dispatches)
    /\ \A k \in 1..Len(Dispatches) :
           /\ wire[2 * k - 1].ev = "dispatch" /\ wire[2 * k - 1].pos = k
           /\ wire[2 * k - 1].url = Some(BaseUrl \o BatchPath(mod_list[k]))
           /\ wire[2 * k].ev = "outcome" /\ wire[2 * k].pos = k
    /\ BatchEnded => Len(Dispatches) = Len(mod_list)
    /\ GenerateModInfoReturned =>
           /\ Len(response_list) = Len(mod_list)
           /\ \A k \in 1..Len(mod_list) : wire[2 * k].got = Return(response_list[k])

\* the case of C19: of two ids the first one's query raised an exception
\* that query does not catch, and the second id was never queried
C19_Witness ==
    /\ bop = "import_mod_info"
    /\ bpc = "raised"
    /\ Len(mod_list) = 2
    /\ Len(Dispatches) = 1
    /\ wire[2].got = Raise("ChunkedEncodingError")

(***************************************************************************)
(* Properties of the download.                                             *)
(***************************************************************************)
\* the final "/"-separated segment of the task's URL
LastSegment == LET parts == Split(task.url, "/") IN parts[Len(parts)]

Named == dpc # "idle" /\ dpc # "naming" /\ ~(dpc = "raised" /\ dresult.at \in {"download", "makedirs"})

\* C6 (as stated): the file name is the part of the URL's final segment in
\* front of its first "?"; when the segment has no "?" extraction fails and
\* the whole URL is the file name. For every URL, segments with several "?"
\* and segments that begin with "?" included.
C6_NameBeforeFirstQuestionMark ==
    Named =>
        IF Positions(LastSegment, "?") # {}
        THEN /\ ~name_error
             /\ file_name = SubSeq(LastSegment, 1, Min(Positions(LastSegment, "?")) - 1)
        ELSE /\ name_error
             /\ file_name = task.url

\* a prefix of the final segment that can be the file name: not empty, free
\* of line breaks, and followed by a "?"
NameCandidate(name) ==
    /\ name # <<>>
    /\ Len(name) < Len(LastSegment)
    /\ name \o <<"?">> = SubSeq(LastSegment, 1, Len(name) + 1)
    /\ Positions(name, "\n") = {}

\* C6 (amended): the file name is the longest non-empty prefix of the final
\* segment that holds no line break and is followed by a "?" (with no line
\* break in the segment: the part in front of its last "?"); when there is
\* no such prefix (no "?", a "?" only at the very start, a line break in
\* front of every "?") extraction fails and download_with_progress_bar takes
\* the whole URL as the file name.
C6_NameBeforeLastQuestionMark ==
    Named =>
        IF \E n \in 1..Len(LastSegment) : NameCandidate(SubSeq(LastSegment, 1, n))
        THEN /\ ~name_error
             /\ NameCandidate(file_name)
             /\ \A n \in 1..Len(LastSegment) :
                    NameCandidate(SubSeq(LastSegment, 1, n)) => n <= Len(file_name)
        ELSE /\ name_error
             /\ file_name = task.url

\* the case of C6: a segment with two "?", named up to the second one
C6_Witness ==
    /\ Named
    /\ task.url = <<"/", "a", "?", "?">>
    /\ ~name_error
    /\ file_name = <<"a", "?">>

RECURSIVE Concat(_)
Concat(chunks) ==
    IF chunks = <<>> THEN <<>> ELSE Head(chunks) \o Concat(Tail(chunks))

RECURSIVE TotalLen(_)
TotalLen(chunks) ==
    IF chunks = <<>> THEN 0 ELSE Len(Head(chunks)) + TotalLen(Tail(chunks))

Streaming == dpc \in {"stream", "done"}

\* C7 (as stated): the chunks are appended to the file in the order
\* received, and progress is reported once per chunk, after it, with the
\* chunk's size and the running total of bytes written.
C7_ProgressInBytes ==
    Streaming =>
        /\ files[out_path] = Concat(received)
        /\ Len(progress) = Len(received)
        /\ \A k \in 1..Len(progress) :
               /\ progress[k].n = Len(received[k])
               /\ progress[k].total = TotalLen(SubSeq(received, 1, k))

\* C7 (amended): the chunks are appended to the file in the order received,
\* so the file is their concatenation and its length the sum of their
\* sizes; the progress bar advances once per chunk, after the chunk is
\* written, by one: it counts chunks, not bytes.
C7_ChunksInOrder ==
    Streaming =>
        /\ files[out_path] = Concat(received)
        /\ Len(files[out_path]) = TotalLen(received)
        /\ Len(progress) = Len(received)
        /\ \A k \in 1..Len(progress) : progress[k] = [n |-> 1, total |-> k]

\* the case of C7: three chunks of different content were written and the
\* download ended
C7_Witness ==
    /\ dpc = "done"
    /\ received = <<<<0, 1>>, <<1>>, <<0, 0>>>>
    /\ files[out_path] = <<0, 1, 1, 0, 0>>
    /\ Len(progress) = 3

MidStreamFailure == dpc = "raised" /\ dresult.at \in {"stream", "write"}

\* the result value the claim expects of an interrupted download
DownloadErrorIncomplete ==
    [kind |-> "return", exc |-> "", at |-> "end",
     value |-> Some(<<"DownloadError{Incomplete}">>)]

\* the chunks written in full
Written == SubSeq(received, 1, Len(progress))

\* C8 (as stated): a download that fails mid-stream returns
\* DownloadError{Incomplete} as a value, the file is left with exactly the
\* chunks written so far, and nothing is cleaned up or retried.
C8_ReturnsIncomplete ==
    MidStreamFailure =>
        /\ dresult = DownloadErrorIncomplete
        /\ out_path \in DOMAIN files
        /\ files[out_path] = Concat(Written)
        /\ Len(net) = 1

\* C8 (amended): a download that fails mid-stream lets the exception leave
\* download_with_progress_bar (no result value is returned); the file stays
\* on disk holding the chunks written so far, in order, followed by at most
\* a part of the chunk whose write failed; the one GET is not repeated.
C8_RaisesLeavingPartialFile ==
    MidStreamFailure =>
        /\ dresult.kind = "raise"
        /\ dresult.exc = (IF dresult.at = "write" THEN "OSError" ELSE "ChunkedEncodingError")
        /\ out_path \in DOMAIN files
        /\ Len(net) = 1
        /\ IF dresult.at = "stream"
           THEN received = Written /\ files[out_path] = Concat(Written)
           ELSE /\ Len(received) = Len(Written) + 1
                /\ \E n \in 0..(Len(received[Len(received)]) - 1) :
                       files[out_path] =
                           Concat(Written) \o SubSeq(received[Len(received)], 1, n)

\* the case of C8: the stream broke after two chunks were written
C8_Witness ==
    /\ MidStreamFailure
    /\ dresult.at = "stream"
    /\ Len(received) = 2
    /\ files[out_path] = Concat(received)

\* C10: every network call is made with a timeout, the same one at every
\* call site: the request of NexusQuery.query and the GET of a download.
C10_EveryCallHasTheTimeout ==
    /\ Dispatched => call.sent.timeout = Some(QueryTimeout)
    /\ \A k \in 1..Len(net) : net[k].timeout = Some(QueryTimeout)

\* the case of C10: the GET of a download was issued without a timeout
C10_Witness ==
    /\ Len(net) = 1
    /\ net[1].timeout = None

\* a byte has been written to output_file
HasWritten == out_path \in DOMAIN files /\ files[out_path] # <<>>

\* the directory a path lies in
Parent(names) == SubSeq(names, 1, Len(names) - 1)

\* C14: whatever write_folder string the download is given, with the
\* trailing separator or without it, by the time the first byte is written
\* the folder it names exists (its ancestors with it) and the file being
\* written lies in that folder.
C14_FolderExistsBeforeWrite ==
    HasWritten =>
        /\ \A n \in 0..Len(Names(task.write_folder)) :
               SubSeq(Names(task.write_folder), 1, n) \in dirs
        /\ Parent(out_path) = Names(task.write_folder)

\* the case of C14: write_folder is "a/out"; bytes are being written while
\* no folder a/out exists, into the file a/outFile_1.7z of the folder a
C14_Witness ==
    /\ HasWritten
    /\ task.write_folder = <<"a", "/", "out">>
    /\ <<<<"a">>, <<"out">>>> \notin dirs
    /\ out_path = <<<<"a">>, <<"out", "File_1.7z">>>>

\* C15: a download that consumes the whole stream without error returns the
\* path of the file it wrote, write_folder followed by the file name,
\* through download_with_progress_bar and through FileDownloader.download.
C15_ReturnsFinalPath ==
    dpc = "done" => dresult = DReturn(Some(task.write_folder \o file_name))

\* the case of C15: the stream was consumed, the file is written, and the
\* caller got None
C15_Witness ==
    /\ dpc = "done"
    /\ received # <<>>
    /\ files[out_path] = Concat(received)
    /\ dresult = DReturn(None)

IsPrefix(s1, s2) == Len(s1) <= Len(s2) /\ s1 = SubSeq(s2, 1, Len(s1))

\* C20: the destination file is opened for writing, which creates it or
\* empties it, before the GET is issued and with no regard for the status
\* of the response: once the file is open and until bytes arrive it exists
\* and is empty, no GET is issued unless the file was opened, and from the
\* GET on (failed, answered 2xx or answered non-2xx) the file exists and
\* holds bytes of this response only, nothing of what was at the path before.
C20_OpenedBeforeGet ==
    /\ dpc = "get" =>
           /\ net = <<>>
           /\ out_path \in DOMAIN files /\ files[out_path] = <<>>
    /\ (dpc = "raised" /\ dresult.at \in {"download", "makedirs", "open"}) => net = <<>>
    /\ net # <<>> =>
           /\ out_path \in DOMAIN files
           /\ IsPrefix(files[out_path], Concat(received))
    /\ (dpc = "raised" /\ dresult.at = "get") => files[out_path] = <<>>

\* the case of C20: an earlier File_1.7z was at the destination, the GET
\* failed, and the file is there, empty
C20_Witness ==
    /\ dpc = "raised" /\ dresult.at = "get"
    /\ <<<<"mod_downloads">>, <<"readme">>>> \in DOMAIN files
    /\ out_path = <<<<"mod_downloads">>, <<"File_1.7z">>>>
    /\ files[out_path] = <<>>

\* the same after a 404: the body of the error response was written to the
\* file in place of what was there
C20_NonSuccessWritten ==
    /\ dpc = "done"
    /\ net[1].status = Some(404)
    /\ <<<<"mod_downloads">>, <<"readme">>>> \in DOMAIN files
    /\ out_path = <<<<"mod_downloads">>, <<"File_1.7z">>>>
    /\ files[out_path] = Concat(received)

(***************************************************************************)
(* Properties of the Authenticator.                                        *)
(***************************************************************************)
\* self._api_key of the object
StoredKey == Val(auth)._api_key

IsText(key) == ~IsNone(key) /\ Val(key).type = "str"

AbsentOrText(key) == IsNone(key) \/ IsText(key)

\* C12: an Authenticator constructed without a key has the key None; setting
\* api_key to a text stores exactly that text; setting it to anything else
\* fails and leaves the stored key as it was; reading api_key returns the
\* stored key and changes nothing. So a set never turns a key that is
\* absent or text into anything else.
C12_KeyHandling ==
    /\ (acall.op = "__init__" /\ IsNone(acall.arg)) => StoredKey = None
    /\ (acall.op = "set" /\ IsText(acall.arg)) =>
           /\ acall.outcome.kind = "return"
           /\ StoredKey = acall.arg
    /\ (acall.op = "set" /\ ~IsText(acall.arg)) =>
           /\ acall.outcome.kind = "raise"
           /\ auth = acall.before
    /\ acall.op = "get" =>
           /\ acall.outcome = AReturn(StoredKey)
           /\ auth = acall.before
    /\ (acall.op = "set" /\ AbsentOrText(Val(acall.before)._api_key)) =>
           AbsentOrText(StoredKey)

\* the case of C12: the key was "abc", setting it to the integer 123 failed,
\* and the key is still "abc"
C12_Witness ==
    /\ acall.op = "set"
    /\ acall.arg = Some(PyInt("123"))
    /\ acall.outcome.kind = "raise"
    /\ acall.before = NewAuthenticator(Some(PyStr(<<"abc">>)))
    /\ StoredKey = Some(PyStr(<<"abc">>))

\* text is the whole of content, piece by piece, a line ending read as "\n"
FullTextOf(text, content) ==
    /\ Len(text) = Len(content)
    /\ \A i \in 1..Len(content) :
           \/ text[i] = content[i]
           \/ content[i] \in {"\r\n", "\r"} /\ text[i] = "\n"

\* C13: from_file on the path of an existing file returns a new
\* Authenticator whose key is the file's whole text, nothing cut or trimmed;
\* on any other path (nothing there, a directory) it fails and no
\* Authenticator is produced.
C13_FromFile ==
    acall.op = "from_file" =>
        IF acall.file_name \in DOMAIN KeyFiles
        THEN /\ acall.outcome.kind = "return"
             /\ IsText(StoredKey)
             /\ FullTextOf(Val(StoredKey).val, KeyFiles[acall.file_name])
        ELSE /\ acall.outcome = ARaise("AssertionError")
             /\ auth = acall.before

\* the case of C13: the key read from a file of two lines holds both lines
\* and their line endings
C13_Witness ==
    /\ acall.op = "from_file"
    /\ acall.file_name = "two_lines.txt"
    /\ StoredKey = Some(PyStr(<<"KEY", "\n", "123", "\n">>))

(***************************************************************************)
(* Properties of the ModListImporter.                                      *)
(***************************************************************************)
\* self._mod_list of the object
StoredList == Val(importer)._mod_list

\* a row of column names
IsHeaderRow(row) == \A c \in 1..Len(row) : ~IsDigits(row[c])

\* the file is one header row followed by rows that hold a mod id in the
\* chosen column
HoldsIds(table, column) ==
    /\ table # <<>>
    /\ IsHeaderRow(table[1])
    /\ column + 1 <= Len(table[1])
    /\ \A k \in 2..Len(table) : IsDigits(table[k][column + 1])

\* the ids of the chosen column, in row order, the header row left out
IdColumn(table, column) ==
    [k \in 1..(Len(table) - 1) |-> PyInt(table[k + 1][column + 1])]

\* C17: from_csv and from_excel, given a file of one header row followed by
\* rows of mod ids, return an importer whose mod_list is exactly the ids of
\* the chosen column in row order, the header row left out.
C17_ModListIsTheIdColumn ==
    (icall.op \in {"from_csv", "from_excel"} /\ HoldsIds(icall.table, icall.column)) =>
        /\ icall.outcome.kind = "return"
        /\ StoredList = Some(PyList(IdColumn(icall.table, icall.column)))

\* the case of C17: from_excel on a sheet with the header modids and the ids
\* 1 and 2 gives a mod_list that starts with the header's text
C17_Witness ==
    /\ icall.op = "from_excel"
    /\ icall.table = <<<<"modids">>, <<"1">>, <<"2">>>>
    /\ icall.column = 0
    /\ StoredList = Some(PyList(<<PyStr(<<"modids">>), PyInt("1"), PyInt("2")>>))

IsList(value) == ~IsNone(value) /\ Val(value).type = "list"

\* C18: the stored mod_list is always a list: it is the empty list after
\* construction without an argument, a list that is set is the list that is
\* read, and no value that is not a list is ever stored, be it offered to
\* the setter or to the constructor.
C18_ModListAlwaysAList ==
    /\ ~IsNone(importer) => IsList(StoredList)
    /\ (icall.op = "__init__" /\ IsNone(icall.arg)) => StoredList = Some(PyList(<<>>))
    /\ (icall.op = "set" /\ IsList(icall.arg)) => StoredList = icall.arg
    /\ (icall.op = "set" /\ ~IsList(icall.arg)) => importer = icall.before
    /\ icall.op = "get" => icall.outcome = AReturn(StoredList)

\* the case of C18: the constructor was given a tuple, and the tuple is the
\* stored mod_list
C18_Witness ==
    /\ icall.op = "__init__"
    /\ icall.arg = Some(PyTuple(<<PyInt("1"), PyInt("2")>>))
    /\ StoredList = icall.arg

(***************************************************************************)
(* The profile files of the batch methods                                  *)
(***************************************************************************)
\* the file holds the JSON form of the dict: one member per key, named by
\* the key's decimal text, with the key's value
HoldsDict(content, d) ==
    /\ DOMAIN content = {ToString(k) : k \in DOMAIN d}
    /\ \A k \in DOMAIN d : content[ToString(k)] = d[k]

\* the step touches a profile file of the batch methods
BatchFileTouched ==
    \/ writes' # writes
    \/ profile' # profile
    \/ file_lists' # file_lists

\* the step is the single write of `path`, whose file `after` then holds the
\* dict the call returns, while the other file `untouched` stays as it was
WritesResult(path, after, untouched) ==
    /\ bpc' = "done"
    /\ bresult'.kind = "return"
    /\ Len(response_list) = Len(mod_list)
    /\ writes = <<>>
    /\ Len(writes') = 1
    /\ writes'[1].path = path
    /\ HoldsDict(writes'[1].content, bresult'.value)
    /\ after = Some(writes'[1].content)
    /\ untouched

C21_RaisedLeavesFiles ==
    /\ bop = "import_file_list"
    /\ bpc = "raised"
    /\ DOMAIN file_list_dict # {}
    /\ writes = <<>>
    /\ file_lists = Some(EarlierContent)
    /\ profile = Some(EarlierContent)

(***************************************************************************)
(* The profile file of authenticate                                        *)
(***************************************************************************)
\* authenticate has ended, and its validation query had handed a response
\* back: the server's, or the empty one that stands for a caught failure
ValidationAnswered ==
    /\ bop = "authenticate"
    /\ bpc \in {"done", "raised"}
    /\ auth_result.query.kind = "return"

\* profile/user_profile.json has not been touched by the call
UserProfileUntouched == writes = <<>>

\* C22: authenticate writes profile/user_profile.json if and only if the
\* validation query returned status 200: then the file holds the decoded
\* body and the response is returned; on any other response, the empty one
\* of a caught transport failure included, authenticate returns an empty
\* response without raising and leaves the file as it was
C22_ProfileWrittenIffOk ==
    ValidationAnswered =>
        IF auth_result.query.response.status_code = Some(200)
        THEN /\ auth_result.kind = "return"
             /\ auth_result.response = auth_result.query.response
             /\ Len(writes) = 1
             /\ writes[1].path = UserProfileFile
             /\ user_profile = Some(writes[1].content)
             /\ user_profile = auth_result.query.response.content
        ELSE /\ auth_result.kind = "return"
             /\ auth_result.response = EmptyResponse
             /\ UserProfileUntouched

\* the case of C22: the validation request timed out, query handed back
\* the empty response, and raise_for_status on it raised TypeError, which
\* left authenticate; the file is as it was
C22_Witness ==
    /\ ValidationAnswered
    /\ auth_result.query.response = EmptyResponse
    /\ auth_result.kind = "raise"
    /\ auth_result.exc = "TypeError"
    /\ UserProfileUntouched

\* status 200 with a body that is not JSON: response.json() raises out of
\* authenticate and no file is written
C22_OkNotJson ==
    /\ ValidationAnswered
    /\ auth_result.query.response.status_code = Some(200)
    /\ auth_result.kind = "raise"
    /\ auth_result.exc = "JSONDecodeError"
    /\ UserProfileUntouched

\* status 200 with a JSON body over an earlier file: the body is stored
C22_OkStored ==
    /\ ValidationAnswered
    /\ auth_result.kind = "return"
    /\ Len(writes) = 1
    /\ user_profile = Some(writes[1].content)
    /\ user_profile # Some(EarlierContent)

\* status 404: the HTTPError is caught and the empty response returned
C22_NotFound ==
    /\ ValidationAnswered
    /\ auth_result.query.response.status_code = Some(404)
    /\ auth_result.kind = "return"
    /\ auth_result.response = EmptyResponse
    /\ user_profile = Some(EarlierContent)

====
